---- MODULE Spec2Model ----
(***************************************************************************)
(* Model of the PCOS prediction-and-explanation pipeline                   *)
(* (backend/app/services/ml_service.py): feature vector builder, scorer,   *)
(* attribution selection, risk tiering and recommendation composer.        *)
(*                                                                         *)
(* Numbers.  A record value is an exact rational <<n, d>> (d > 0, lowest   *)
(* terms) or None.  Probabilities and SHAP contributions are integers in   *)
(* units of 1e-5 (PUnit = 1.0), one decimal finer than the 4-decimal       *)
(* rounding the code applies to them.  A text is a sequence of blocks; a   *)
(* block is a fixed string literal of the source, named by a short tag.    *)
(***************************************************************************)
EXTENDS Integers, Sequences, FiniteSets, TLC

VARIABLES
    model,          \* self.model / self.explainer: which frozen classifier was loaded
    feature_names,  \* self.feature_names: the ordered feature schema
    argsort_kind,   \* how this build's np.argsort orders equal keys
    input_data,     \* the caller's record object (a dict) handed to predict_*
    record0,        \* the record as it was when the call was made
    is_stage2,      \* which of predict_stage1 / predict_stage2 is running
    pc,             \* position of the call: idle, build, predict, respond, done, raised
    error,          \* exception that ended the call, "" if none
    features,       \* local 'features' of predict_*
    probability,    \* local 'probability' of predict_* (units of 1e-5)
    shap_values,    \* local 'shap_values_pcos' of predict_* (units of 1e-5)
    result,         \* the dict returned by _build_response
    training_means, \* self.training_means: feature name -> mean
    prev,           \* outcome of the call before, when it scored the same record
    svc,            \* construction of the singleton: constructing, ready, failed
    loaded,         \* the artifacts _load_artifacts has set so far, in order
    calls,          \* the calls in flight when requests are served in parallel
    db,             \* the patients and diagnoses tables
    response,       \* what the last request to the diagnosis router answered
    trail           \* per diagnosis: the records scored and the last result returned

vars == <<model, feature_names, argsort_kind, input_data, record0, is_stage2,
          pc, error, features, probability, shap_values, result, training_means,
          prev, svc, loaded, calls,
          db, response, trail>>

----------------------------------------------------------------------------
(* Bounds of the model *)

\* number of frozen classifiers the artifact may be
NumModels == 6

----------------------------------------------------------------------------
(* Exact rational arithmetic standing for Python float arithmetic *)

None == <<>>

Abs(n) == IF n < 0 THEN -n ELSE n

RECURSIVE GCD(_, _)
GCD(a, b) == IF b = 0 THEN a ELSE GCD(b, a % b)

\* lowest terms, positive denominator
QNorm(n, d) ==
    LET s == IF d < 0 THEN -1 ELSE 1
        g == GCD(Abs(n), Abs(d))
    IN  <<(s * n) \div g, (s * d) \div g>>

Q(n) == <<n, 1>>

QDiv(a, b) == QNorm(a[1] * b[2], a[2] * b[1])

QMul(a, b) == QNorm(a[1] * b[1], a[2] * b[2])

QSub(a, b) == QNorm(a[1] * b[2] - b[1] * a[2], a[2] * b[2])

QLess(a, b) == a[1] * b[2] < b[1] * a[2]

QIsZero(a) == a[1] = 0

\* round(x, 4) of a value held in units of 1e-5, ties to even
Round4(v) ==
    LET q == v \div 10
        r == v % 10
    IN  IF r < 5 THEN 10 * q
        ELSE IF r > 5 THEN 10 * (q + 1)
        ELSE IF q % 2 = 0 THEN 10 * q ELSE 10 * (q + 1)

\* round(x, 2) of a rational, ties to even
Round2(a) ==
    LET q == (100 * a[1]) \div a[2]
        r == 2 * ((100 * a[1]) % a[2])
        k == IF r < a[2] THEN q
             ELSE IF r > a[2] THEN q + 1
             ELSE IF q % 2 = 0 THEN q ELSE q + 1
    IN  QNorm(k, 100)

----------------------------------------------------------------------------
(* Python dict operations on a record *)

\* d[k] = v
DictSet(d, k, v) == [x \in (DOMAIN d) \cup {k} |-> IF x = k THEN v ELSE d[x]]

\* d without key k
DictDel(d, k) == [x \in (DOMAIN d) \ {k} |-> d[x]]

\* d.get(k): None when the key is missing
DictGet(d, k) == IF k \in DOMAIN d THEN d[k] ELSE None

EmptyDict == [x \in {} |-> None]

Range(s) == {s[i] : i \in DOMAIN s}

Min(S) == CHOOSE x \in S : \A y \in S : x <= y

----------------------------------------------------------------------------
(* Artifacts: the feature schema and the training means *)

\* a schema with more features than the attribution list keeps
LongSchema ==
    <<"Age (yrs)", "Weight (Kg)", "Height(Cm)", "BMI", "Cycle(R/I)",
      "Cycle length(days)", "FSH(mIU/mL)", "LH(mIU/mL)", "FSH/LH",
      "Waist:Hip Ratio">>

\* a schema with fewer features than the attribution list keeps
ShortSchema == <<"Age (yrs)", "BMI", "FSH/LH">>

Schemas == {LongSchema, ShortSchema}

\* training_means.json: mean of each trained feature
MeansTable ==
    [f \in Range(LongSchema) |->
        CASE f = "Age (yrs)"          -> QNorm(314, 10)
          [] f = "Weight (Kg)"        -> QNorm(596, 10)
          [] f = "Height(Cm)"         -> QNorm(1565, 10)
          [] f = "BMI"                -> QNorm(243, 10)
          [] f = "Cycle(R/I)"         -> QNorm(26, 10)
          [] f = "Cycle length(days)" -> QNorm(49, 10)
          [] f = "FSH(mIU/mL)"        -> QNorm(146, 10)
          [] f = "LH(mIU/mL)"         -> QNorm(65, 10)
          [] f = "FSH/LH"             -> QNorm(69, 10)
          [] OTHER                    -> QNorm(89, 100)]

\* the means table of a schema; feature_names = list(training_means.keys())
MeansOf(schema) == [f \in Range(schema) |-> MeansTable[f]]

\* training_means.get(feature_name, 0)
MeanGet(means, f) == IF f \in DOMAIN means THEN means[f] ELSE Q(0)

\* field_mapping, in the order the dict literal lists it
field_mapping ==
    << <<"age", "Age (yrs)">>,
       <<"weight", "Weight (Kg)">>,
       <<"height", "Height(Cm)">>,
       <<"bmi", "BMI">>,
       <<"cycle_regularity", "Cycle(R/I)">>,
       <<"cycle_length", "Cycle length(days)">>,
       <<"weight_gain", "Weight gain(Y/N)">>,
       <<"hair_growth", "hair growth(Y/N)">>,
       <<"skin_darkening", "Skin darkening (Y/N)">>,
       <<"hair_loss", "Hair loss(Y/N)">>,
       <<"pimples", "Pimples(Y/N)">>,
       <<"fast_food", "Fast food (Y/N)">>,
       <<"regular_exercise", "Reg.Exercise(Y/N)">>,
       <<"marriage_years", "Marraige Status (Yrs)">>,
       <<"pregnant", "Pregnant(Y/N)">>,
       <<"num_abortions", "No. of aborptions">>,
       <<"fsh", "FSH(mIU/mL)">>,
       <<"lh", "LH(mIU/mL)">>,
       <<"amh", "AMH(ng/mL)">>,
       <<"tsh", "TSH (mIU/L)">>,
       <<"prl", "PRL(ng/mL)">>,
       <<"prg", "PRG(ng/mL)">>,
       <<"follicle_l", "Follicle No. (L)">>,
       <<"follicle_r", "Follicle No. (R)">>,
       <<"avg_f_size_l", "Avg. F size (L) (mm)">>,
       <<"avg_f_size_r", "Avg. F size (R) (mm)">>,
       <<"endometrium", "Endometrium (mm)">>,
       <<"vit_d3", "Vit D3 (ng/mL)">>,
       <<"hb", "Hb(g/dl)">>,
       <<"rbs", "RBS(mg/dl)">>,
       <<"blood_group", "Blood Group">>,
       <<"pulse_rate", "Pulse rate(bpm)">>,
       <<"respiratory_rate", "RR (breaths/min)">>,
       <<"hip", "Hip(inch)">>,
       <<"waist", "Waist(inch)">>,
       <<"waist_hip_ratio", "Waist:Hip Ratio">>,
       <<"bp_systolic", "BP _Systolic (mmHg)">>,
       <<"bp_diastolic", "BP _Diastolic (mmHg)">> >>

\* the inner loop: the first key whose mapped name is the feature, "" for None
InputKey(feature_name) ==
    LET hits == {i \in DOMAIN field_mapping : field_mapping[i][2] = feature_name}
    IN  IF hits = {} THEN "" ELSE field_mapping[Min(hits)][1]

----------------------------------------------------------------------------
(* _build_feature_vector *)

\* 'bmi' not in input_data and 'weight' in input_data and 'height' in input_data
BmiGuard(d) ==
    /\ "bmi" \notin DOMAIN d
    /\ "weight" \in DOMAIN d
    /\ "height" \in DOMAIN d

\* the exception of weight / ((height / 100) ** 2), "" if it evaluates
BmiError(d) ==
    IF d["weight"] = None \/ d["height"] = None THEN "TypeError"
    ELSE IF QIsZero(d["height"]) THEN "ZeroDivisionError"
    ELSE ""

\* weight / ((height / 100) ** 2)
BmiValue(d) ==
    LET m == QDiv(d["height"], Q(100))
    IN  QDiv(d["weight"], QMul(m, m))

\* fsh_value is not None and lh_value is not None and lh_value > 0
RatioGuard(d, num, den) ==
    /\ DictGet(d, num) # None
    /\ DictGet(d, den) # None
    /\ QLess(Q(0), DictGet(d, den))

\* Derive converting the caller's height to metres in place before using it
Derive_HeightInPlace(d) ==
    LET d0 == IF "height" \in DOMAIN d /\ d["height"] # None
              THEN DictSet(d, "height", QDiv(d["height"], Q(100)))
              ELSE d
        d1 == IF BmiGuard(d0)
              THEN DictSet(d0, "bmi",
                           QDiv(d0["weight"], QMul(d0["height"], d0["height"])))
              ELSE d0
        d2 == IF RatioGuard(d1, "fsh", "lh")
              THEN DictSet(d1, "fsh_lh_ratio", QDiv(d1["fsh"], d1["lh"]))
              ELSE d1
        d3 == IF RatioGuard(d2, "waist", "hip")
              THEN DictSet(d2, "waist_hip_ratio", QDiv(d2["waist"], d2["hip"]))
              ELSE d2
    IN  d3

\* the record after the three derived-field statements (BMI must not raise)
Derive(d) ==
    LET d1 == IF BmiGuard(d) THEN DictSet(d, "bmi", BmiValue(d)) ELSE d
        d2 == IF RatioGuard(d1, "fsh", "lh")
              THEN DictSet(d1, "fsh_lh_ratio", QDiv(d1["fsh"], d1["lh"]))
              ELSE d1
        d3 == IF RatioGuard(d2, "waist", "hip")
              THEN DictSet(d2, "waist_hip_ratio", QDiv(d2["waist"], d2["hip"]))
              ELSE d2
    IN  d3

\* Slot imputing 0 instead of the training mean
Slot_ZeroImpute(d, means, feature_name) ==
    LET input_key == InputKey(feature_name)
    IN  IF input_key # "" /\ input_key \in DOMAIN d /\ d[input_key] # None
        THEN d[input_key]
        ELSE Q(0)

\* Slot without the 'is not None' test
Slot_KeepsNone(d, means, feature_name) ==
    LET input_key == InputKey(feature_name)
    IN  IF input_key # "" /\ input_key \in DOMAIN d
        THEN d[input_key]
        ELSE MeanGet(means, feature_name)

\* Slot testing the value for truth instead of 'is not None'
Slot_TruthTest(d, means, feature_name) ==
    LET input_key == InputKey(feature_name)
    IN  IF input_key # "" /\ input_key \in DOMAIN d /\ d[input_key] # None
           /\ ~QIsZero(d[input_key])
        THEN d[input_key]
        ELSE MeanGet(means, feature_name)

\* one pass of the outer loop: the slot appended for a schema feature
Slot(d, means, feature_name) ==
    LET input_key == InputKey(feature_name)
    IN  IF input_key # "" /\ input_key \in DOMAIN d /\ d[input_key] # None
        THEN d[input_key]
        ELSE MeanGet(means, feature_name)

\* the vector built from the record after derivation
Vector(d, schema, means) == [i \in DOMAIN schema |-> Slot(d, means, schema[i])]

----------------------------------------------------------------------------
(* Scorer and explainer: frozen artifacts, fixed functions of the vector *)

\* 1.0 in the units probabilities and contributions are held in
PUnit == 100000

\* probabilities a classifier can answer, around every threshold of the code
ProbSamples ==
    <<0, 10000, 14999, 15000, 20000, 24999, 25000, 30000, 30004, 39999,
      40000, 50000, 60000, 60001, 70000, 70004, 75000, 75001, 80000, 85000,
      85001, 100000>>

\* contributions an explainer can answer: zero, sub-rounding, equal magnitudes
ShapSamples == <<0, 4, -4, 12, -12, 250, -250, 1000, -3000, 6, 95>>

\* scaler.transform: per-feature centring on the training mean
Transform(xs, schema) == [i \in DOMAIN xs |-> QSub(xs[i], MeansTable[schema[i]])]

RECURSIVE DigestFrom(_, _)
DigestFrom(xs, i) ==
    IF i > Len(xs) THEN 0
    ELSE (2 * i + 1) * (xs[i][1] + 3 * xs[i][2]) + DigestFrom(xs, i + 1)

\* what a frozen tree ensemble sees of a scaled vector
Digest(xs) == DigestFrom(xs, 1)

\* model.predict_proba(features_scaled)[0][1] of classifier m
PredictProba(m, xs) == ProbSamples[((m + Digest(xs)) % Len(ProbSamples)) + 1]

\* explainer.shap_values(features_scaled)[:, :, 1][0] of classifier m
ShapOf(m, xs) ==
    [i \in DOMAIN xs |->
        ShapSamples[((3 * m + Digest(xs) + 4 * i) % Len(ShapSamples)) + 1]]

----------------------------------------------------------------------------
(* _build_response: risk tier and attribution list *)

\* number of attribution entries kept: [:8]
TopK == 8

\* RiskLevel with the boundaries taken into the upper tier (>= for >)
RiskLevel_Inclusive(p) ==
    IF 10 * p >= 7 * PUnit THEN "HIGH"
    ELSE IF 10 * p >= 3 * PUnit THEN "MODERATE"
    ELSE "LOW"

\* if probability > 0.7 ... elif probability > 0.3 ... else
RiskLevel(p) ==
    IF 10 * p > 7 * PUnit THEN "HIGH"
    ELSE IF 10 * p > 3 * PUnit THEN "MODERATE"
    ELSE "LOW"

\* j is placed before i by np.argsort(np.abs(shap_values)); equal keys follow
\* the build: index order (stable small-array path) or the opposite
SortsBefore(vals, kind, j, i) ==
    \/ Abs(vals[j]) < Abs(vals[i])
    \/ /\ Abs(vals[j]) = Abs(vals[i])
       /\ IF kind = "stable" THEN j < i ELSE j > i

\* np.argsort(np.abs(shap_values))
ArgSort(vals, kind) ==
    [k \in DOMAIN vals |->
        CHOOSE i \in DOMAIN vals :
            Cardinality({j \in DOMAIN vals : SortsBefore(vals, kind, j, i)}) = k - 1]

\* TopIndices without the [::-1] reversal: the 8 smallest magnitudes
TopIndices_Ascending(vals, kind) ==
    LET n == Len(vals)
        order == ArgSort(vals, kind)
        m == IF n < TopK THEN n ELSE TopK
    IN  [k \in 1..m |-> order[k]]

\* np.argsort(np.abs(shap_values))[::-1][:8]
TopIndices(vals, kind) ==
    LET n == Len(vals)
        order == ArgSort(vals, kind)
        m == IF n < TopK THEN n ELSE TopK
    IN  [k \in 1..m |-> order[n + 1 - k]]

\* one appended entry of shap_data
ShapEntry(schema, vals, xs, idx) ==
    [feature   |-> schema[idx],
     impact    |-> Round4(vals[idx]),
     direction |-> IF vals[idx] > 0 THEN "increases" ELSE "decreases",
     value     |-> Round2(xs[idx]),
     color     |-> IF vals[idx] > 0 THEN "#fb6f92" ELSE "#38b000"]

\* shap_data
ShapData(schema, vals, xs, kind) ==
    LET indices == TopIndices(vals, kind)
    IN  [k \in DOMAIN indices |-> ShapEntry(schema, vals, xs, indices[k])]

----------------------------------------------------------------------------
(* Recommendation composer.  A text is a sequence of pieces: <<>> is the   *)
(* empty string, a block of the source is one piece named by its opening   *)
(* words, and a separator is a piece of its own (no block contains one).   *)

\* the outer delimiter of " | ".join(sections)
Delim == " | "

\* the inner separator of " ".join(symptom_notes)
Space == " "

RECURSIVE Join(_, _)
\* sep.join(texts)
Join(sep, texts) ==
    IF Len(texts) = 0 THEN <<>>
    ELSE IF Len(texts) = 1 THEN texts[1]
    ELSE texts[1] \o <<sep>> \o Join(sep, Tail(texts))

\* _get_detailed_recommendation answering the screening wording at both stages
DetailedRecommendation_StageBlind(risk_level, stage2) ==
    IF risk_level = "HIGH" THEN <<"HIGH RISK - PRESUMPTIVE">>
    ELSE IF risk_level = "MODERATE" THEN <<"MODERATE RISK - INCONCLUSIVE">>
    ELSE <<"LOW RISK">>

\* _get_detailed_recommendation
DetailedRecommendation(risk_level, stage2) ==
    IF stage2
    THEN IF risk_level = "HIGH" THEN <<"CONFIRMED PCOS DIAGNOSIS">>
         ELSE IF risk_level = "MODERATE" THEN <<"BORDERLINE RESULT">>
         ELSE <<"LOW RISK CONFIRMED">>
    ELSE IF risk_level = "HIGH" THEN <<"HIGH RISK - PRESUMPTIVE">>
         ELSE IF risk_level = "MODERATE" THEN <<"MODERATE RISK - INCONCLUSIVE">>
         ELSE <<"LOW RISK">>

\* UncertaintyContext whose upper moderate band runs to 0.85
UncertaintyContext_WideBand(p, risk_level) ==
    IF 100 * p > 85 * PUnit THEN <<"CONFIDENCE: HIGH - assessment">>
    ELSE IF 100 * p < 15 * PUnit THEN <<"CONFIDENCE: HIGH - low-risk">>
    ELSE IF 10 * p >= 4 * PUnit /\ 10 * p <= 6 * PUnit
         THEN <<"CONFIDENCE: BORDERLINE">>
    ELSE IF 100 * p >= 25 * PUnit /\ 10 * p < 4 * PUnit
         THEN <<"CONFIDENCE: MODERATE - below threshold">>
    ELSE IF 10 * p > 6 * PUnit /\ 100 * p <= 85 * PUnit
         THEN <<"CONFIDENCE: MODERATE - elevated">>
    ELSE <<>>

\* _get_uncertainty_context
UncertaintyContext(p, risk_level) ==
    IF 100 * p > 85 * PUnit THEN <<"CONFIDENCE: HIGH - assessment">>
    ELSE IF 100 * p < 15 * PUnit THEN <<"CONFIDENCE: HIGH - low-risk">>
    ELSE IF 10 * p >= 4 * PUnit /\ 10 * p <= 6 * PUnit
         THEN <<"CONFIDENCE: BORDERLINE">>
    ELSE IF 100 * p >= 25 * PUnit /\ 10 * p < 4 * PUnit
         THEN <<"CONFIDENCE: MODERATE - below threshold">>
    ELSE IF 10 * p > 6 * PUnit /\ 100 * p <= 75 * PUnit
         THEN <<"CONFIDENCE: MODERATE - elevated">>
    ELSE <<>>

\* AgeContext with the bracket boundaries taken into the upper bracket
AgeContext_Shifted(age, risk_level) ==
    IF age = None THEN <<>>
    ELSE IF QLess(age, Q(18)) THEN <<"AGE CONSIDERATION (Adolescent)">>
    ELSE IF QLess(age, Q(25)) THEN <<"AGE CONSIDERATION (Young Adult)">>
    ELSE IF QLess(age, Q(35)) THEN <<"AGE CONSIDERATION (Reproductive Age)">>
    ELSE IF QLess(age, Q(45)) THEN <<"AGE CONSIDERATION (Late Reproductive)">>
    ELSE <<"AGE CONSIDERATION (Perimenopause/Menopause)">>

\* _get_age_context
AgeContext(age, risk_level) ==
    IF age = None THEN <<>>
    ELSE IF QLess(age, Q(18)) THEN <<"AGE CONSIDERATION (Adolescent)">>
    ELSE IF ~QLess(age, Q(18)) /\ ~QLess(Q(25), age)
         THEN <<"AGE CONSIDERATION (Young Adult)">>
    ELSE IF QLess(Q(25), age) /\ ~QLess(Q(35), age)
         THEN <<"AGE CONSIDERATION (Reproductive Age)">>
    ELSE IF QLess(Q(35), age) /\ ~QLess(Q(45), age)
         THEN <<"AGE CONSIDERATION (Late Reproductive)">>
    ELSE <<"AGE CONSIDERATION (Perimenopause/Menopause)">>

\* Python truth value of an optional number: None and 0 are false
Truthy(v) == v # None /\ ~QIsZero(v)

\* number of true entries of a list of booleans
Count(bs) == Cardinality({i \in DOMAIN bs : bs[i]})

\* the exception of sum([bmi and bmi > 25, ...]): a None entry cannot be added
SymptomError(d) == IF DictGet(d, "bmi") = None THEN "TypeError" ELSE ""

\* metabolic_flags counting a BMI of exactly 25 as overweight
MetabolicFlags_AtLeast25(d) ==
    LET bmi == DictGet(d, "bmi")
    IN  Count(<<Truthy(bmi) /\ ~QLess(bmi, Q(25)),
                DictGet(d, "weight_gain") = Q(1),
                DictGet(d, "fast_food") = Q(1),
                DictGet(d, "regular_exercise") = Q(0)>>)

\* metabolic_flags
MetabolicFlags(d) ==
    LET bmi == DictGet(d, "bmi")
    IN  Count(<<Truthy(bmi) /\ QLess(Q(25), bmi),
                DictGet(d, "weight_gain") = Q(1),
                DictGet(d, "fast_food") = Q(1),
                DictGet(d, "regular_exercise") = Q(0)>>)

\* androgen_flags
AndrogenFlags(d) ==
    Count(<<DictGet(d, "hair_growth") = Q(1),
            DictGet(d, "hair_loss") = Q(1),
            DictGet(d, "pimples") = Q(1),
            DictGet(d, "skin_darkening") = Q(1)>>)

\* cycle_regularity == 1 or (cycle_length and cycle_length > 35)
ReproductivePattern(d) ==
    LET cycle_length == DictGet(d, "cycle_length")
    IN  \/ DictGet(d, "cycle_regularity") = Q(1)
        \/ Truthy(cycle_length) /\ QLess(Q(35), cycle_length)

\* symptom_notes with the hyperandrogenic test made before the metabolic one
SymptomNotes_AndrogenFirst(d) ==
    (IF AndrogenFlags(d) >= 2
     THEN << <<"HYPERANDROGENIC PATTERN DETECTED">> >> ELSE <<>>)
    \o (IF MetabolicFlags(d) >= 2 THEN << <<"METABOLIC PATTERN DETECTED">> >> ELSE <<>>)
    \o (IF ReproductivePattern(d)
        THEN << <<"MENSTRUAL IRREGULARITY NOTED">> >> ELSE <<>>)

\* symptom_notes
SymptomNotes(d) ==
    (IF MetabolicFlags(d) >= 2 THEN << <<"METABOLIC PATTERN DETECTED">> >> ELSE <<>>)
    \o (IF AndrogenFlags(d) >= 2
        THEN << <<"HYPERANDROGENIC PATTERN DETECTED">> >> ELSE <<>>)
    \o (IF ReproductivePattern(d)
        THEN << <<"MENSTRUAL IRREGULARITY NOTED">> >> ELSE <<>>)

\* _get_symptom_context joining its notes like sections
SymptomContext_PipeJoined(d) == Join(Delim, SymptomNotes(d))

\* _get_symptom_context (when it does not raise)
SymptomContext(d) == Join(Space, SymptomNotes(d))

\* Sections appending every section, empty or not
Sections_Unfiltered(risk_level, p, stage2, d) ==
    <<DetailedRecommendation(risk_level, stage2),
      UncertaintyContext(p, risk_level),
      AgeContext(DictGet(d, "age"), risk_level),
      SymptomContext(d)>>

\* sections, as _get_personalized_recommendation collects them
Sections(risk_level, p, stage2, d) ==
    LET uncertainty == UncertaintyContext(p, risk_level)
        age_context == AgeContext(DictGet(d, "age"), risk_level)
        symptom_context == SymptomContext(d)
    IN  <<DetailedRecommendation(risk_level, stage2)>>
        \o (IF uncertainty # <<>> THEN <<uncertainty>> ELSE <<>>)
        \o (IF age_context # <<>> THEN <<age_context>> ELSE <<>>)
        \o (IF symptom_context # <<>> THEN <<symptom_context>> ELSE <<>>)

\* _get_personalized_recommendation (when it does not raise)
PersonalizedRecommendation(risk_level, p, stage2, d) ==
    Join(Delim, Sections(risk_level, p, stage2, d))

----------------------------------------------------------------------------
(* Records a caller can pass *)

\* marks a key the caller leaves out of the dict
Absent == <<"absent">>

\* the record with key k given value v, or without k when v is Absent
Put(d, k, v) == IF v = Absent THEN DictDel(d, k) ELSE DictSet(d, k, v)

\* a complete screening record (every Stage1Input field)
BaseRecord ==
    [age |-> Q(22), weight |-> Q(70), height |-> Q(160),
     cycle_regularity |-> Q(2), cycle_length |-> Q(28),
     weight_gain |-> Q(0), hair_growth |-> Q(0), skin_darkening |-> Q(0),
     hair_loss |-> Q(0), pimples |-> Q(0), fast_food |-> Q(0),
     regular_exercise |-> Q(1)]

\* ages on both sides of every bracket boundary, unknown ages
AgeRecords ==
    {Put(BaseRecord, "age", a) :
        a \in {Absent, None} \cup {Q(n) : n \in {0, 17, 18, 25, 26, 35, 36, 45, 46}}}

\* the inputs of the BMI derivation: missing, null, zero, negative, usual
BmiRecords ==
    {Put(Put(Put(BaseRecord, "weight", w), "height", h), "bmi", b) :
        w \in {Absent, None, Q(64), Q(70)},
        h \in {Absent, None, Q(0), Q(-160), Q(160)},
        b \in {Absent, None, Q(30)}}

\* the inputs of the FSH:LH derivation, on a confirmatory record
HormoneRecords ==
    {Put(Put(Put(BaseRecord, "fsh", f), "lh", l), "fsh_lh_ratio", r) :
        f \in {Absent, None, Q(0), Q(5)},
        l \in {Absent, None, Q(0), Q(-10), Q(10)},
        r \in {Absent, Q(3)}}

\* the inputs of the waist:hip derivation
WaistRecords ==
    {Put(Put(Put(BaseRecord, "waist", w), "hip", h), "waist_hip_ratio", r) :
        w \in {Absent, None, Q(30)},
        h \in {Absent, None, Q(0), Q(-36), Q(36)},
        r \in {Absent, Q(2)}}

\* 0/1 symptom flags as the screening input carries them
FlagRecord(d, keys, bits) ==
    [k \in DOMAIN d |->
        IF \E i \in DOMAIN keys : keys[i] = k
        THEN Q(bits[CHOOSE i \in DOMAIN keys : keys[i] = k])
        ELSE d[k]]

\* symptom clusters: lifestyle flags, BMI at and above 25, androgen flags, cycle
SymptomRecords ==
    {Put(Put(Put(
        FlagRecord(BaseRecord,
                   <<"weight_gain", "fast_food", "regular_exercise",
                     "hair_growth", "hair_loss", "pimples", "skin_darkening">>,
                   m \o a),
        "weight", w), "cycle_regularity", c[1]), "cycle_length", c[2]) :
        m \in {<<0, 0, 1>>, <<1, 0, 1>>, <<0, 1, 1>>, <<0, 0, 0>>, <<1, 1, 0>>},
        a \in {<<0, 0, 0, 0>>, <<1, 0, 0, 0>>, <<1, 1, 0, 0>>, <<0, 0, 1, 1>>},
        w \in {Q(64), Q(70)},
        c \in {<<Q(2), Q(28)>>, <<Q(4), Q(35)>>, <<Q(1), Q(28)>>, <<Q(2), Q(36)>>,
               <<None, None>>}}

\* records with unknown symptom flags, and the empty record
SparseRecords ==
    {EmptyDict, [age |-> Q(30)], [age |-> Q(30), bmi |-> Q(0)]}
    \cup {Put(BaseRecord, k, None) :
            k \in {"weight_gain", "regular_exercise", "hair_growth", "cycle_length"}}

\* a screening record with every lifestyle flag adverse and an irregular cycle
ScenarioRecords ==
    {Put(Put(Put(Put(Put(BaseRecord, "height", Q(165)), "cycle_regularity", Q(4)),
         "weight_gain", Q(1)), "fast_food", Q(1)), "regular_exercise", Q(0))}

\* the fields Stage1Input declares with Field(...): all of them are required
Stage1Required ==
    {"age", "weight", "height", "cycle_regularity", "cycle_length", "weight_gain",
     "hair_growth", "skin_darkening", "hair_loss", "pimples", "fast_food",
     "regular_exercise"}

\* the fields Stage2Input declares with Field(...); tsh and endometrium are
\* Optional
Stage2Required ==
    {"fsh", "lh", "amh", "follicle_l", "follicle_r", "avg_f_size_l", "avg_f_size_r"}

Records ==
    AgeRecords \cup BmiRecords \cup HormoneRecords \cup WaistRecords
    \cup SymptomRecords \cup SparseRecords \cup ScenarioRecords

----------------------------------------------------------------------------
(* State machine: one scoring call at a time on the ml_service singleton *)

NoResult == EmptyDict

\* the artifacts in the order _load_artifacts sets them
ArtifactOrder == <<"model", "scaler", "training_means", "model_info", "explainer">>

\* no earlier call on the record in hand
NoCall == <<>>

\* the tables after create_tables: no patient, no diagnosis
EmptyDb == [patients |-> <<>>, diagnoses |-> <<>>]

\* no request answered yet
NoResponse ==
    [op |-> "", by |-> 0, target |-> 0, status |-> 0, patients |-> {},
     diagnoses |-> {}, body |-> <<>>]

Init ==
    /\ model \in 0..(NumModels - 1)
    /\ feature_names \in Schemas
    /\ training_means = MeansOf(feature_names)
    /\ argsort_kind \in {"stable", "unstable"}
    /\ input_data = EmptyDict
    /\ record0 = EmptyDict
    /\ is_stage2 = FALSE
    /\ pc = "idle"
    /\ error = ""
    /\ features = <<>>
    /\ probability = 0
    /\ shap_values = <<>>
    /\ result = NoResult
    /\ prev = NoCall
    /\ svc = "ready"
    /\ loaded = ArtifactOrder
    /\ calls = <<>>
    /\ db = EmptyDb
    /\ response = NoResponse
    /\ trail = <<>>

\* records the next call can be given: any record while the service is idle;
\* after a call, again the dict object that call worked on, or a fresh dict
\* equal to the record that call was given
Callable == IF pc = "idle" THEN Records ELSE {input_data, record0}

\* a caller enters predict_stage1 / predict_stage2 with a record
Enter(rec, stage2) ==
    /\ svc = "ready"
    /\ pc \in {"idle", "done", "raised"}
    /\ prev' = IF pc = "idle" THEN NoCall
               ELSE <<is_stage2, features, result, pc, error>>
    /\ input_data' = rec
    /\ record0' = rec
    /\ is_stage2' = stage2
    /\ pc' = "build"
    /\ error' = ""
    /\ features' = <<>>
    /\ probability' = 0
    /\ shap_values' = <<>>
    /\ result' = NoResult
    /\ UNCHANGED <<model, feature_names, argsort_kind, training_means,
                   svc, loaded, calls,
                   db, response, trail>>

predict_stage1 == \E rec \in Callable : Enter(rec, FALSE)

predict_stage2 == \E rec \in Callable : Enter(rec, TRUE)

\* the caller has taken the result (or the exception) and dropped the record
Return ==
    /\ pc \in {"done", "raised"}
    /\ input_data' = EmptyDict
    /\ record0' = EmptyDict
    /\ is_stage2' = FALSE
    /\ pc' = "idle"
    /\ error' = ""
    /\ features' = <<>>
    /\ probability' = 0
    /\ shap_values' = <<>>
    /\ result' = NoResult
    /\ prev' = NoCall
    /\ UNCHANGED <<model, feature_names, argsort_kind, training_means,
                   svc, loaded, calls,
                   db, response, trail>>

\* features = self._build_feature_vector(input_data, is_stage2)
BuildFeatureVector ==
    /\ pc = "build"
    /\ IF BmiGuard(input_data) /\ BmiError(input_data) # ""
       THEN /\ pc' = "raised"
            /\ error' = BmiError(input_data)
            /\ UNCHANGED <<input_data, features>>
       ELSE /\ input_data' = Derive(input_data)
            /\ features' = Vector(Derive(input_data), feature_names, training_means)
            /\ pc' = "predict"
            /\ UNCHANGED error
    /\ UNCHANGED <<model, feature_names, argsort_kind, training_means, record0,
                   is_stage2, probability, shap_values, result,
                   prev, svc, loaded, calls,
                   db, response, trail>>

\* scaler.transform, model.predict_proba, explainer.shap_values
Score ==
    /\ pc = "predict"
    /\ LET features_scaled == Transform(features, feature_names)
       IN  /\ probability' = PredictProba(model, features_scaled)
           /\ shap_values' = ShapOf(model, features_scaled)
    /\ pc' = "respond"
    /\ UNCHANGED <<model, feature_names, argsort_kind, training_means, input_data,
                   record0, is_stage2, error, features, result,
                   prev, svc, loaded, calls,
                   db, response, trail>>

\* the dict _build_response returns (when the recommendation does not raise)
Response(stage2, p, shap, x, d) ==
    [probability     |-> Round4(p),
     risk_level      |-> RiskLevel(p),
     is_confirmed    |-> stage2,
     recommendation  |-> PersonalizedRecommendation(RiskLevel(p), p, stage2, d),
     shap_chart_data |-> ShapData(feature_names, shap, x, argsort_kind)]

\* return self._build_response(...); the recommendation is composed twice
\* from the same arguments, the second value is the one returned
BuildResponse ==
    /\ pc = "respond"
    /\ IF SymptomError(input_data) # ""
       THEN /\ pc' = "raised"
            /\ error' = SymptomError(input_data)
            /\ UNCHANGED result
       ELSE /\ result' = Response(is_stage2, probability, shap_values, features,
                                  input_data)
            /\ pc' = "done"
            /\ UNCHANGED error
    /\ UNCHANGED <<model, feature_names, argsort_kind, training_means, input_data,
                   record0, is_stage2, features, probability, shap_values,
                   prev, svc, loaded, calls,
                   db, response, trail>>

Next ==
    \/ predict_stage1
    \/ predict_stage2
    \/ BuildFeatureVector
    \/ Score
    \/ BuildResponse
    \/ Return

Spec == Init /\ [][Next]_vars

\* predict_stage1 / predict_stage2 from entry to exit.
\* How a call on record rec ends when it runs alone: "done" with its result,
\* or "raised" with its exception
AloneOutcome(rec, stage2) ==
    IF BmiGuard(rec) /\ BmiError(rec) # ""
    THEN <<"raised", BmiError(rec), NoResult>>
    ELSE LET d == Derive(rec)
             x == Vector(d, feature_names, training_means)
             xs == Transform(x, feature_names)
         IN  IF SymptomError(d) # ""
             THEN <<"raised", SymptomError(d), NoResult>>
             ELSE <<"done", "",
                    Response(stage2, PredictProba(model, xs), ShapOf(model, xs), x, d)>>

----------------------------------------------------------------------------
(* Construction of the singleton: ml_service = MLService() at import *)

\* list(self.training_means.keys()): the keys in the order of the JSON file
KeysOf(means) == CHOOSE s \in Schemas : Range(s) = DOMAIN means

\* before __init__ runs _load_artifacts every artifact attribute is None
LoadInit ==
    /\ model = None
    /\ feature_names = None
    /\ training_means = None
    /\ argsort_kind \in {"stable", "unstable"}
    /\ input_data = EmptyDict
    /\ record0 = EmptyDict
    /\ is_stage2 = FALSE
    /\ pc = "idle"
    /\ error = ""
    /\ features = <<>>
    /\ probability = 0
    /\ shap_values = <<>>
    /\ result = NoResult
    /\ prev = NoCall
    /\ svc = "constructing"
    /\ loaded = <<>>
    /\ calls = <<>>
    /\ db = EmptyDb
    /\ response = NoResponse
    /\ trail = <<>>

\* the state of the service after the except clause of _load_artifacts:
\* the error is printed and raised again, the import of the module fails
\* and the name ml_service is never bound
AfterLoadError_Swallowed == "ready"

AfterLoadError == "failed"

\* the next statement of the try block of _load_artifacts succeeds
LoadArtifact ==
    /\ svc = "constructing"
    /\ LET next == ArtifactOrder[Len(loaded) + 1]
       IN  /\ loaded' = Append(loaded, next)
           /\ IF next = "model"
              THEN \E m \in 0..(NumModels - 1) : model' = m
              ELSE UNCHANGED model
           /\ IF next = "training_means"
              THEN \E s \in Schemas : training_means' = MeansOf(s)
              ELSE UNCHANGED training_means
           /\ IF next = "model_info"
              THEN feature_names' = KeysOf(training_means)
              ELSE UNCHANGED feature_names
    /\ svc' = IF Len(loaded) + 1 = Len(ArtifactOrder) THEN "ready" ELSE svc
    /\ UNCHANGED <<argsort_kind, input_data, record0, is_stage2, pc, error,
                   features, probability, shap_values, result, prev, calls,
                   db, response, trail>>

\* the next statement of the try block raises
LoadFails ==
    /\ svc = "constructing"
    /\ svc' = AfterLoadError
    /\ UNCHANGED <<model, feature_names, argsort_kind, training_means, input_data,
                   record0, is_stage2, pc, error, features, probability,
                   shap_values, result, prev, loaded, calls, db, response, trail>>

LoadNext ==
    \/ LoadArtifact
    \/ LoadFails
    \/ Next

LoadSpec == LoadInit /\ [][LoadNext]_vars

----------------------------------------------------------------------------
(* Requests served in parallel: the endpoints are plain functions, which   *)
(* the framework runs on a thread pool, so several predict_* calls can be  *)
(* in flight on the one ml_service object.  Each request passes a dict of  *)
(* its own (ml_input is built per request).                                *)

\* number of calls in flight at once
NumCalls == 2

Calls == 1..NumCalls

\* the records the parallel requests carry
ConcRecords ==
    ScenarioRecords \cup {[age |-> Q(30)], Put(BaseRecord, "height", Q(0))}

\* the frame of a call that has not started: its arguments and locals
IdleCall ==
    [pc |-> "idle", input_data |-> EmptyDict, record0 |-> EmptyDict,
     is_stage2 |-> FALSE, error |-> "", features |-> <<>>, probability |-> 0,
     shap_values |-> <<>>, result |-> NoResult]

ConcInit ==
    /\ model \in 0..(NumModels - 1)
    /\ feature_names \in Schemas
    /\ training_means = MeansOf(feature_names)
    /\ argsort_kind \in {"stable", "unstable"}
    /\ input_data = EmptyDict
    /\ record0 = EmptyDict
    /\ is_stage2 = FALSE
    /\ pc = "idle"
    /\ error = ""
    /\ features = <<>>
    /\ probability = 0
    /\ shap_values = <<>>
    /\ result = NoResult
    /\ prev = NoCall
    /\ svc = "ready"
    /\ loaded = ArtifactOrder
    /\ calls = [c \in Calls |-> IdleCall]
    /\ db = EmptyDb
    /\ response = NoResponse
    /\ trail = <<>>

\* everything but the frames of the calls in flight
ConcFrame ==
    UNCHANGED <<model, feature_names, argsort_kind, input_data, record0,
                is_stage2, pc, error, features, probability, shap_values,
                result, training_means, prev, svc, loaded, db, response, trail>>

\* 'features' read from an attribute of the singleton that every call's
\* builder assigns, instead of from the local variable
FeaturesOf_Shared(cs, c) ==
    LET others == {o \in DOMAIN cs : o # c /\ cs[o].features # <<>>}
    IN  IF others = {} THEN cs[c].features
        ELSE cs[CHOOSE o \in others : TRUE].features

\* the local variable 'features' of call c
FeaturesOf(cs, c) == cs[c].features

ConcEnter(c, rec, stage2) ==
    /\ svc = "ready"
    /\ calls[c].pc = "idle"
    /\ calls' = [calls EXCEPT ![c] =
                    [IdleCall EXCEPT !.pc = "build", !.input_data = rec,
                                     !.record0 = rec, !.is_stage2 = stage2]]
    /\ ConcFrame

ConcPredictStage1(c) == \E rec \in ConcRecords : ConcEnter(c, rec, FALSE)

ConcPredictStage2(c) == \E rec \in ConcRecords : ConcEnter(c, rec, TRUE)

ConcBuildFeatureVector(c) ==
    /\ calls[c].pc = "build"
    /\ LET d == calls[c].input_data
       IN  calls' = [calls EXCEPT ![c] =
              IF BmiGuard(d) /\ BmiError(d) # ""
              THEN [@ EXCEPT !.pc = "raised", !.error = BmiError(d)]
              ELSE [@ EXCEPT !.pc = "predict", !.input_data = Derive(d),
                             !.features = Vector(Derive(d), feature_names,
                                                 training_means)]]
    /\ ConcFrame

ConcScore(c) ==
    /\ calls[c].pc = "predict"
    /\ LET features_scaled == Transform(FeaturesOf(calls, c), feature_names)
       IN  calls' = [calls EXCEPT ![c] =
              [@ EXCEPT !.pc = "respond",
                        !.probability = PredictProba(model, features_scaled),
                        !.shap_values = ShapOf(model, features_scaled)]]
    /\ ConcFrame

ConcBuildResponse(c) ==
    /\ calls[c].pc = "respond"
    /\ LET d == calls[c].input_data
       IN  calls' = [calls EXCEPT ![c] =
              IF SymptomError(d) # ""
              THEN [@ EXCEPT !.pc = "raised", !.error = SymptomError(d)]
              ELSE [@ EXCEPT !.pc = "done",
                             !.result = Response(calls[c].is_stage2,
                                                 calls[c].probability,
                                                 calls[c].shap_values,
                                                 FeaturesOf(calls, c), d)]]
    /\ ConcFrame

ConcReturn(c) ==
    /\ calls[c].pc \in {"done", "raised"}
    /\ calls' = [calls EXCEPT ![c] = IdleCall]
    /\ ConcFrame

ConcNext ==
    \E c \in Calls :
        \/ ConcPredictStage1(c)
        \/ ConcPredictStage2(c)
        \/ ConcBuildFeatureVector(c)
        \/ ConcScore(c)
        \/ ConcBuildResponse(c)
        \/ ConcReturn(c)

ConcSpec == ConcInit /\ [][ConcNext]_vars

----------------------------------------------------------------------------
(* The diagnosis router (routers/diagnosis.py) over the patients and       *)
(* diagnoses tables.  A request is handled in one step, requests one after *)
(* another; a nullable column holds None or <<value>>; date.today() does   *)
(* not move, so Patient.age is a fixed value per patient.                  *)

\* number of clinicians (users)
NumClinicians == 2

\* rows the patients table can hold
MaxPatients == 2

\* rows the diagnoses table can hold
MaxDiagnoses == 2

Clinicians == 1..NumClinicians

\* Patient.age: the age date_of_birth gives today
PatientAge == Q(30)

\* a validated Stage1Input body, as model_dump() gives it: the age entered
\* on the form differs from Patient.age
ScreeningInputs == ScenarioRecords

\* validated Stage2Input bodies, as model_dump() gives them: the optional
\* tsh and endometrium are None when the request leaves them out
ClinicalInputs ==
    {[fsh |-> Q(5), lh |-> Q(10), amh |-> Q(3), tsh |-> None,
      follicle_l |-> Q(8), follicle_r |-> Q(9), avg_f_size_l |-> Q(15),
      avg_f_size_r |-> Q(14), endometrium |-> None],
     [fsh |-> Q(6), lh |-> Q(0), amh |-> Q(7), tsh |-> Q(2),
      follicle_l |-> Q(14), follicle_r |-> Q(12), avg_f_size_l |-> Q(18),
      avg_f_size_r |-> Q(17), endometrium |-> Q(9)]}

\* the columns stage1_screening copies from the body
ScreeningColumns == {"weight", "height", "cycle_regularity", "cycle_length"}

\* the Boolean columns of the seven symptom flags
FlagColumns ==
    {"weight_gain", "hair_growth", "skin_darkening", "hair_loss", "pimples",
     "fast_food", "regular_exercise"}

\* bool(input_data.weight_gain)
ToBool(v) == ~QIsZero(v)

\* int(diagnosis.weight_gain)
ToInt(b) == IF b THEN Q(1) ELSE Q(0)

\* Patient.id == patient_id, Patient.clinician_id == current_user.id
FindPatient(c, pid) ==
    pid \in DOMAIN db.patients /\ db.patients[pid].clinician_id = c

\* the diagnosis looked up by its id alone
FindDiagnosis_AnyClinician(c, did) == did \in DOMAIN db.diagnoses

\* Diagnosis.id == diagnosis_id, joined with Patient on
\* Patient.clinician_id == current_user.id
FindDiagnosis(c, did) ==
    /\ did \in DOMAIN db.diagnoses
    /\ db.patients[db.diagnoses[did].patient_id].clinician_id = c

\* HTTPException(status_code=404)
NotFound(op, c, id) ==
    [op |-> op, by |-> c, target |-> id, status |-> 404, patients |-> {},
     diagnoses |-> {}, body |-> <<>>]

\* an exception of the scoring call leaves the handler: status 500
ServerError(op, c, id) ==
    [op |-> op, by |-> c, target |-> id, status |-> 500, patients |-> {},
     diagnoses |-> {}, body |-> <<>>]

\* the router runs on one loaded artifact set: the first classifier, the
\* long schema and its means
ApiInit ==
    /\ model = 0
    /\ feature_names = LongSchema
    /\ training_means = MeansOf(feature_names)
    /\ argsort_kind = "stable"
    /\ input_data = EmptyDict
    /\ record0 = EmptyDict
    /\ is_stage2 = FALSE
    /\ pc = "idle"
    /\ error = ""
    /\ features = <<>>
    /\ probability = 0
    /\ shap_values = <<>>
    /\ result = NoResult
    /\ prev = NoCall
    /\ svc = "ready"
    /\ loaded = ArtifactOrder
    /\ calls = <<>>
    /\ db = EmptyDb
    /\ response = NoResponse
    /\ trail = <<>>

\* everything but the tables, the response and the trail
ApiFrame ==
    UNCHANGED <<model, feature_names, argsort_kind, input_data, record0,
                is_stage2, pc, error, features, probability, shap_values,
                result, training_means, prev, svc, loaded, calls>>

\* POST /patient
create_patient(c) ==
    /\ Len(db.patients) < MaxPatients
    /\ db' = [db EXCEPT !.patients =
                 Append(@, [clinician_id |-> c, age |-> PatientAge])]
    /\ response' = [op |-> "create_patient", by |-> c, target |-> 0,
                    status |-> 201,
                    patients |-> {Len(db.patients) + 1}, diagnoses |-> {},
                    body |-> <<>>]
    /\ UNCHANGED trail
    /\ ApiFrame

\* GET /patients
get_patients(c) ==
    /\ response' = [op |-> "get_patients", by |-> c, target |-> 0,
                    status |-> 200,
                    patients |-> {p \in DOMAIN db.patients : FindPatient(c, p)},
                    diagnoses |-> {}, body |-> <<>>]
    /\ UNCHANGED <<db, trail>>
    /\ ApiFrame

\* input_data.age if input_data.age else patient.age
ActualAge(inp, patient) ==
    IF Truthy(inp["age"]) THEN inp["age"] ELSE patient.age

\* the Diagnosis row stage1_screening adds
Stage1Row(pid, inp, actual_age, res) ==
    [patient_id         |-> pid,
     age_at_diagnosis   |-> actual_age,
     cols               |-> [k \in ScreeningColumns |-> inp[k]],
     bmi                |-> BmiValue(inp),
     flags              |-> [k \in FlagColumns |-> ToBool(inp[k])],
     clinical           |-> [k \in DOMAIN (CHOOSE b \in ClinicalInputs : TRUE) |-> None],
     stage1_probability |-> <<res.probability>>,
     stage2_probability |-> None,
     risk_level         |-> res.risk_level,
     is_confirmed       |-> FALSE,
     shap_values        |-> res.shap_chart_data]

\* the DiagnosisResponse both scoring endpoints return
DiagnosisResponse(did, pid, confirmed, res) ==
    [id |-> did, patient_id |-> pid, probability |-> res.probability,
     risk_level |-> res.risk_level, is_confirmed |-> confirmed,
     shap_chart_data |-> res.shap_chart_data,
     recommendation |-> res.recommendation]

\* POST /stage1/{patient_id}
stage1_screening(c, pid, inp) ==
    /\ IF ~FindPatient(c, pid)
       THEN /\ response' = NotFound("stage1_screening", c, pid)
            /\ UNCHANGED <<db, trail>>
       ELSE \E actual_age \in {ActualAge(inp, db.patients[pid])} :
            \E ml_input \in {DictSet(inp, "age", actual_age)} :
            \E out \in {AloneOutcome(ml_input, FALSE)} :
            LET did == Len(db.diagnoses) + 1
            IN  IF out[1] = "raised"
                THEN /\ response' = ServerError("stage1_screening", c, pid)
                     /\ UNCHANGED <<db, trail>>
                ELSE /\ Len(db.diagnoses) < MaxDiagnoses
                     /\ db' = [db EXCEPT !.diagnoses =
                                  Append(@, Stage1Row(pid, inp, actual_age, out[3]))]
                     /\ trail' = Append(trail, [screened |-> ml_input,
                                                scored   |-> ml_input,
                                                returned |-> out[3]])
                     /\ response' =
                           [op |-> "stage1_screening", by |-> c, target |-> pid,
                            status |-> 200,
                            patients |-> {pid}, diagnoses |-> {did},
                            body |-> DiagnosisResponse(did, pid, FALSE, out[3])]
    /\ ApiFrame

\* {**d, **e}: the keys of both, e winning
Merge(d, e) ==
    [k \in DOMAIN d \cup DOMAIN e |-> IF k \in DOMAIN e THEN e[k] ELSE d[k]]

\* ml_input of stage2_confirmation: the stored screening columns, the
\* patient's age, and the body on top
Stage2MlInput(row, patient, inp) ==
    Merge([k \in {"age"} \cup ScreeningColumns \cup FlagColumns |->
              IF k = "age" THEN patient.age
              ELSE IF k \in ScreeningColumns THEN row.cols[k]
              ELSE ToInt(row.flags[k])],
          inp)

\* the assignments of stage2_confirmation without the one to risk_level
Stage2Update_KeepsRiskLevel(row, inp, res) ==
    [row EXCEPT !.clinical = inp,
                !.stage2_probability = <<res.probability>>,
                !.is_confirmed = TRUE,
                !.shap_values = res.shap_chart_data]

\* the assignments of stage2_confirmation to the diagnosis row
Stage2Update(row, inp, res) ==
    [row EXCEPT !.clinical = inp,
                !.stage2_probability = <<res.probability>>,
                !.risk_level = res.risk_level,
                !.is_confirmed = TRUE,
                !.shap_values = res.shap_chart_data]

\* PUT /stage2/{diagnosis_id}
stage2_confirmation(c, did, inp) ==
    /\ IF ~FindDiagnosis(c, did)
       THEN /\ response' = NotFound("stage2_confirmation", c, did)
            /\ UNCHANGED <<db, trail>>
       ELSE \E row \in {db.diagnoses[did]} :
            \E ml_input \in {Stage2MlInput(row, db.patients[row.patient_id], inp)} :
            \E out \in {AloneOutcome(ml_input, TRUE)} :
                IF out[1] = "raised"
                THEN /\ response' = ServerError("stage2_confirmation", c, did)
                     /\ UNCHANGED <<db, trail>>
                ELSE /\ db' = [db EXCEPT !.diagnoses[did] =
                                  Stage2Update(row, inp, out[3])]
                     /\ trail' = [trail EXCEPT ![did].scored = ml_input,
                                               ![did].returned = out[3]]
                     /\ response' =
                           [op |-> "stage2_confirmation", by |-> c, target |-> did,
                            status |-> 200,
                            patients |-> {row.patient_id}, diagnoses |-> {did},
                            body |-> DiagnosisResponse(did, row.patient_id, TRUE,
                                                       out[3])]
    /\ ApiFrame

\* d.stage2_probability if d.is_confirmed else d.stage1_probability
Displayed(row) ==
    IF row.is_confirmed THEN row.stage2_probability ELSE row.stage1_probability

\* what the read endpoints show of a diagnosis row
Shown(did) ==
    LET row == db.diagnoses[did]
    IN  [id |-> did, probability |-> Displayed(row),
         risk_level |-> row.risk_level, is_confirmed |-> row.is_confirmed,
         shap_chart_data |-> row.shap_values]

\* the diagnoses of patient pid, order_by(created_at.desc()): newest first
DiagnosesOf(pid) ==
    LET ids == {d \in DOMAIN db.diagnoses : db.diagnoses[d].patient_id = pid}
    IN  [k \in 1..Cardinality(ids) |->
            CHOOSE d \in ids : Cardinality({e \in ids : e > d}) = k - 1]

\* GET /patient/{patient_id}
get_patient_detail(c, pid) ==
    /\ response' =
          IF ~FindPatient(c, pid) THEN NotFound("get_patient_detail", c, pid)
          ELSE LET list == DiagnosesOf(pid)
               IN  [op |-> "get_patient_detail", by |-> c, target |-> pid,
                    status |-> 200,
                    patients |-> {pid}, diagnoses |-> Range(list),
                    body |-> [k \in DOMAIN list |-> Shown(list[k])]]
    /\ UNCHANGED <<db, trail>>
    /\ ApiFrame

\* GET /diagnosis/{diagnosis_id}
get_diagnosis_detail(c, did) ==
    /\ response' =
          IF ~FindDiagnosis(c, did) THEN NotFound("get_diagnosis_detail", c, did)
          ELSE [op |-> "get_diagnosis_detail", by |-> c, target |-> did,
                status |-> 200,
                patients |-> {db.diagnoses[did].patient_id}, diagnoses |-> {did},
                body |-> Shown(did)]
    /\ UNCHANGED <<db, trail>>
    /\ ApiFrame

\* GET /dashboard: each patient of the clinician with the latest diagnosis
get_dashboard_summary(c) ==
    /\ LET mine == {p \in DOMAIN db.patients : FindPatient(c, p)}
           latest == {d \in DOMAIN db.diagnoses :
                         /\ db.diagnoses[d].patient_id \in mine
                         /\ d = DiagnosesOf(db.diagnoses[d].patient_id)[1]}
       IN  response' =
              [op |-> "get_dashboard_summary", by |-> c, target |-> 0,
               status |-> 200,
               patients |-> mine, diagnoses |-> latest,
               body |-> [d \in latest |-> Shown(d)]]
    /\ UNCHANGED <<db, trail>>
    /\ ApiFrame

\* diagnosis_data of download_report: the recommendation is generated on the
\* fly by _get_detailed_recommendation
ReportData(did) ==
    LET row == db.diagnoses[did]
    IN  [patient_age |-> db.patients[row.patient_id].age,
         probability |-> Displayed(row),
         risk_level |-> row.risk_level,
         is_confirmed |-> row.is_confirmed,
         shap_chart_data |-> row.shap_values,
         recommendation |-> DetailedRecommendation(row.risk_level, row.is_confirmed)]

\* GET /{diagnosis_id}/report
download_report(c, did) ==
    /\ response' =
          IF ~FindDiagnosis(c, did) THEN NotFound("download_report", c, did)
          ELSE [op |-> "download_report", by |-> c, target |-> did,
                status |-> 200,
                patients |-> {db.diagnoses[did].patient_id}, diagnoses |-> {did},
                body |-> ReportData(did)]
    /\ UNCHANGED <<db, trail>>
    /\ ApiFrame

ApiNext ==
    \E c \in Clinicians :
        \/ create_patient(c)
        \/ get_patients(c)
        \/ get_dashboard_summary(c)
        \/ \E pid \in 1..MaxPatients :
              \/ \E inp \in ScreeningInputs : stage1_screening(c, pid, inp)
              \/ get_patient_detail(c, pid)
        \/ \E did \in 1..MaxDiagnoses :
              \/ \E inp \in ClinicalInputs : stage2_confirmation(c, did, inp)
              \/ get_diagnosis_detail(c, did)
              \/ download_report(c, did)

ApiSpec == ApiInit /\ [][ApiNext]_vars

----------------------------------------------------------------------------
(* Properties *)

\* the builder returned a vector in the current call
VectorBuilt == features # <<>>

\* the builder raised in the current call
BuildRaised == pc = "raised" /\ features = <<>>

\* key k is missing from record d or explicitly null
Unknown(d, k) == k \notin DOMAIN d \/ d[k] = None

\* key k of record d is missing, null or not positive
NotPositive(d, k) == Unknown(d, k) \/ ~QLess(Q(0), d[k])

\* C1: the tier of a result is the threshold function of the scored
\* probability: HIGH iff p > 0.7, MODERATE iff 0.3 < p <= 0.7, LOW iff
\* p <= 0.3, exactly one of the three for every p in [0, 1].
C1_TierIsThresholdFunction ==
    pc = "done" =>
        LET p == probability
            t == result.risk_level
        IN  /\ 0 <= p /\ p <= PUnit
            /\ t \in {"HIGH", "MODERATE", "LOW"}
            /\ (t = "HIGH") <=> (10 * p > 7 * PUnit)
            /\ (t = "MODERATE") <=> (10 * p > 3 * PUnit /\ 10 * p <= 7 * PUnit)
            /\ (t = "LOW") <=> (10 * p <= 3 * PUnit)

\* a call scored exactly 0.7 and returned MODERATE
C1_Witness ==
    /\ pc = "done"
    /\ 10 * probability = 7 * PUnit
    /\ result.risk_level = "MODERATE"

\* C2: in every returned result the risk_level is the tier the thresholds
\* assign to the 4-decimal probability the same result carries.
C2_TierMatchesReturnedProbability ==
    pc = "done" =>
        LET q == result.probability
            t == result.risk_level
        IN  /\ (t = "HIGH") <=> (10 * q > 7 * PUnit)
            /\ (t = "MODERATE") <=> (10 * q > 3 * PUnit /\ 10 * q <= 7 * PUnit)
            /\ (t = "LOW") <=> (10 * q <= 3 * PUnit)

\* C3 as stated: every schema feature whose mapped field the caller's record
\* omits or holds as null gets the training mean in its slot.
C3_OmittedFieldIsImputed ==
    VectorBuilt =>
        \A i \in DOMAIN feature_names :
            LET k == InputKey(feature_names[i])
            IN  (k # "" /\ Unknown(record0, k))
                    => features[i] = MeanGet(training_means, feature_names[i])

\* the call itself computes a value for key k of the caller's record d
DerivedByCall(d, k) ==
    \/ k = "bmi" /\ "bmi" \notin DOMAIN d /\ "weight" \in DOMAIN d
                 /\ "height" \in DOMAIN d
    \/ k = "waist_hip_ratio" /\ ~Unknown(d, "waist") /\ ~NotPositive(d, "hip")

\* C3 amended: every schema feature whose mapped field the caller's record
\* omits or holds as null, and for which the call derives no value itself
\* (bmi from weight and height, waist_hip_ratio from waist and hip), gets the
\* training mean in its slot.
C3_UnknownUnderivedFieldIsImputed ==
    VectorBuilt =>
        \A i \in DOMAIN feature_names :
            LET k == InputKey(feature_names[i])
            IN  (k # "" /\ Unknown(record0, k) /\ ~DerivedByCall(record0, k))
                    => features[i] = MeanGet(training_means, feature_names[i])

\* a record without an age was built into a vector whose age slot is the mean
C3_Witness ==
    /\ VectorBuilt
    /\ "age" \notin DOMAIN record0
    /\ feature_names[1] = "Age (yrs)"
    /\ features[1] = training_means["Age (yrs)"]
    /\ features[1] # Q(0)

\* C4: a returned vector has one slot per schema feature, slot i holds the
\* value of feature i's mapped field or feature i's mean, and no slot is null.
C4_VectorIsDenseAndOrdered ==
    VectorBuilt =>
        /\ Len(features) = Len(feature_names)
        /\ \A i \in DOMAIN features :
              LET k == InputKey(feature_names[i])
              IN  /\ features[i] # None
                  /\ \/ features[i] = MeanGet(training_means, feature_names[i])
                     \/ k # "" /\ k \in DOMAIN input_data
                               /\ features[i] = input_data[k]

\* a record holding an explicit null was built into a full-length vector
C4_Witness ==
    /\ VectorBuilt
    /\ "lh" \in DOMAIN record0 /\ record0["lh"] = None
    /\ Len(features) = Len(LongSchema)
    /\ \E i \in DOMAIN features : features[i] # training_means[feature_names[i]]

\* C5: for a derived field the caller did not supply, a missing, null or
\* non-positive denominator never makes the builder raise; the field is
\* skipped and the slot of its feature holds the training mean.  Each case
\* is taken with the other inputs of the derivation well-formed.
C5_DivisionGuardsSkip ==
    pc \notin {"idle", "build"} =>
        /\ (Unknown(record0, "bmi") /\ ~Unknown(record0, "weight")
                                    /\ NotPositive(record0, "height")) =>
              /\ ~BuildRaised
              /\ \A i \in DOMAIN features :
                    feature_names[i] = "BMI"
                        => features[i] = MeanGet(training_means, "BMI")
        /\ (Unknown(record0, "fsh_lh_ratio") /\ NotPositive(record0, "lh")
                /\ ~Unknown(record0, "weight") /\ ~NotPositive(record0, "height")) =>
              /\ ~BuildRaised
              /\ "fsh_lh_ratio" \notin DOMAIN input_data
        /\ (Unknown(record0, "waist_hip_ratio") /\ NotPositive(record0, "hip")
                /\ ~Unknown(record0, "weight") /\ ~NotPositive(record0, "height")) =>
              /\ ~BuildRaised
              /\ \A i \in DOMAIN features :
                    feature_names[i] = "Waist:Hip Ratio"
                        => features[i] = MeanGet(training_means, "Waist:Hip Ratio")

\* positions of text r that hold a piece of the set S
Positions(r, S) == {i \in DOMAIN r : r[i] \in S}

BaseBlocks ==
    {"CONFIRMED PCOS DIAGNOSIS", "BORDERLINE RESULT", "LOW RISK CONFIRMED",
     "HIGH RISK - PRESUMPTIVE", "MODERATE RISK - INCONCLUSIVE", "LOW RISK"}

ConfidenceBlocks ==
    {"CONFIDENCE: HIGH - assessment", "CONFIDENCE: HIGH - low-risk",
     "CONFIDENCE: BORDERLINE", "CONFIDENCE: MODERATE - below threshold",
     "CONFIDENCE: MODERATE - elevated"}

AgeBlocks ==
    {"AGE CONSIDERATION (Adolescent)", "AGE CONSIDERATION (Young Adult)",
     "AGE CONSIDERATION (Reproductive Age)", "AGE CONSIDERATION (Late Reproductive)",
     "AGE CONSIDERATION (Perimenopause/Menopause)"}

SymptomBlocks ==
    {"METABOLIC PATTERN DETECTED", "HYPERANDROGENIC PATTERN DETECTED",
     "MENSTRUAL IRREGULARITY NOTED"}

\* C6: the attribution list has min(8, number of schema features) entries of
\* distinct features, in non-increasing order of absolute impact, and no
\* feature left out has a strictly larger absolute contribution than a
\* feature in the list.
C6_TopEightByMagnitude ==
    pc = "done" =>
        LET tbl == result.shap_chart_data
            n == Len(feature_names)
            listed == {tbl[k].feature : k \in DOMAIN tbl}
        IN  /\ Len(tbl) = IF n < 8 THEN n ELSE 8
            /\ Cardinality(listed) = Len(tbl)
            /\ \A k \in DOMAIN tbl :
                  k < Len(tbl) => Abs(tbl[k].impact) >= Abs(tbl[k + 1].impact)
            /\ \A i, j \in DOMAIN feature_names :
                  (feature_names[i] \notin listed /\ feature_names[j] \in listed)
                      => Abs(shap_values[i]) <= Abs(shap_values[j])

\* a schema of more than 8 features was cut to 8 entries, the largest
\* contribution first and a non-zero contribution left out
C6_Witness ==
    /\ pc = "done"
    /\ Len(feature_names) > 8
    /\ Len(result.shap_chart_data) = 8
    /\ Abs(result.shap_chart_data[1].impact) > Abs(result.shap_chart_data[8].impact)
    /\ \E i \in DOMAIN feature_names :
          /\ shap_values[i] # 0
          /\ \A k \in DOMAIN result.shap_chart_data :
                result.shap_chart_data[k].feature # feature_names[i]

\* C7: in every attribution entry the direction is "increases" iff the
\* 4-decimal impact of the entry is > 0 and "decreases" otherwise, and the
\* color is the 'increases' color iff the direction is "increases".
C7_DirectionMatchesImpactSign ==
    pc = "done" =>
        \A k \in DOMAIN result.shap_chart_data :
            LET e == result.shap_chart_data[k]
            IN  /\ (e.direction = "increases") <=> (e.impact > 0)
                /\ e.direction \in {"increases", "decreases"}
                /\ (e.color = "#fb6f92") <=> (e.direction = "increases")

\* C8: the confidence section is chosen by the probability band alone, and
\* between the bands (0.15 <= p < 0.25, 0.75 < p <= 0.85) the recommendation
\* holds no confidence block and no empty segment.
C8_ConfidenceByBand ==
    pc = "done" =>
        LET p == probability
            r == result.recommendation
            conf == {r[i] : i \in Positions(r, ConfidenceBlocks)}
        IN  /\ Cardinality(Positions(r, ConfidenceBlocks)) <= 1
            /\ (100 * p > 85 * PUnit) => conf = {"CONFIDENCE: HIGH - assessment"}
            /\ (100 * p < 15 * PUnit) => conf = {"CONFIDENCE: HIGH - low-risk"}
            /\ (100 * p >= 40 * PUnit /\ 100 * p <= 60 * PUnit)
                  => conf = {"CONFIDENCE: BORDERLINE"}
            /\ (100 * p >= 25 * PUnit /\ 100 * p < 40 * PUnit)
                  => conf = {"CONFIDENCE: MODERATE - below threshold"}
            /\ (100 * p > 60 * PUnit /\ 100 * p <= 75 * PUnit)
                  => conf = {"CONFIDENCE: MODERATE - elevated"}
            /\ (\/ 100 * p >= 15 * PUnit /\ 100 * p < 25 * PUnit
                \/ 100 * p > 75 * PUnit /\ 100 * p <= 85 * PUnit)
                  => /\ conf = {}
                     /\ r[Len(r)] # Delim
                     /\ \A i \in DOMAIN r :
                           (i < Len(r) /\ r[i] = Delim) => r[i + 1] # Delim

\* a probability between the bands gave a recommendation that goes from the
\* base block straight to the age block
C8_Witness ==
    /\ pc = "done"
    /\ 100 * probability > 75 * PUnit
    /\ 100 * probability <= 85 * PUnit
    /\ Len(result.recommendation) >= 3
    /\ result.recommendation[2] = Delim
    /\ result.recommendation[3] \in AgeBlocks

\* C9: the age section is present iff the record's age is known (present and
\* not null), and is then the single block of the bracket the age falls in:
\* < 18, 18..25, (25, 35], (35, 45], > 45.
C9_AgeBlockByBracket ==
    pc = "done" =>
        LET r == result.recommendation
            known == ~Unknown(record0, "age")
            age == record0["age"]
            blocks == {r[i] : i \in Positions(r, AgeBlocks)}
        IN  /\ known <=> (blocks # {})
            /\ known =>
                  /\ Cardinality(Positions(r, AgeBlocks)) = 1
                  /\ (age[1] < 18 * age[2])
                        <=> blocks = {"AGE CONSIDERATION (Adolescent)"}
                  /\ (age[1] >= 18 * age[2] /\ age[1] <= 25 * age[2])
                        <=> blocks = {"AGE CONSIDERATION (Young Adult)"}
                  /\ (age[1] > 25 * age[2] /\ age[1] <= 35 * age[2])
                        <=> blocks = {"AGE CONSIDERATION (Reproductive Age)"}
                  /\ (age[1] > 35 * age[2] /\ age[1] <= 45 * age[2])
                        <=> blocks = {"AGE CONSIDERATION (Late Reproductive)"}
                  /\ (age[1] > 45 * age[2])
                        <=> blocks = {"AGE CONSIDERATION (Perimenopause/Menopause)"}

\* an age on a bracket boundary (35) got the block of the bracket it closes
C9_Witness ==
    /\ pc = "done"
    /\ "age" \in DOMAIN record0
    /\ record0["age"] = Q(35)
    /\ Positions(result.recommendation, {"AGE CONSIDERATION (Reproductive Age)"}) # {}

\* C10: the recommendation is the present sections in the order base,
\* confidence, age, symptom, joined by " | ": the base block is first, there
\* is one delimiter per optional section present, and the string neither
\* starts nor ends with the delimiter nor holds two delimiters in a row.
C10_SectionsJoinedInOrder ==
    pc = "done" =>
        LET r == result.recommendation
            base == Positions(r, BaseBlocks)
            conf == Positions(r, ConfidenceBlocks)
            ages == Positions(r, AgeBlocks)
            symp == Positions(r, SymptomBlocks)
            delims == Positions(r, {Delim})
        IN  /\ base = {1}
            /\ r[Len(r)] # Delim
            /\ \A i \in delims : i + 1 \notin delims
            /\ Cardinality(conf) <= 1 /\ Cardinality(ages) <= 1
            /\ Cardinality(delims) =
                  Cardinality(conf) + Cardinality(ages)
                  + (IF symp = {} THEN 0 ELSE 1)
            /\ \A i \in conf : \A j \in ages \cup symp : i < j
            /\ \A i \in ages : \A j \in symp : i < j
            /\ \A i \in delims : i + 1 \in conf \cup ages \cup symp
            /\ \A i \in conf \cup ages : i - 1 \in delims
            /\ \A i \in symp : i - 1 \in delims \/ (r[i - 1] = Space /\ i - 2 \in symp)
            /\ \A i \in DOMAIN r :
                  r[i] \in BaseBlocks \cup ConfidenceBlocks \cup AgeBlocks
                           \cup SymptomBlocks \cup {Delim, Space}

\* a recommendation in which all three optional sections are present, the
\* symptom section holding two blocks joined by a space
C10_Witness ==
    /\ pc = "done"
    /\ Cardinality(Positions(result.recommendation, {Delim})) = 3
    /\ Cardinality(Positions(result.recommendation, {Space})) = 1
    /\ Cardinality(Positions(result.recommendation, ConfidenceBlocks)) = 1
    /\ Cardinality(Positions(result.recommendation, AgeBlocks)) = 1


\* C11: the metabolic block is in the recommendation of a call iff at least
\* 2 of 4 conditions hold for the record as passed: BMI > 25 (the supplied
\* bmi, or weight / (height / 100)^2 when no bmi is supplied),
\* weight_gain = 1, fast_food = 1, regular_exercise = 0.
C11_MetabolicBlockIffTwoOfFour ==
    pc = "done" =>
        LET r == record0
            over25 ==
                IF "bmi" \in DOMAIN r
                THEN r["bmi"] # None /\ r["bmi"][1] > 25 * r["bmi"][2]
                ELSE /\ ~Unknown(r, "weight") /\ ~Unknown(r, "height")
                     /\ r["height"][1] # 0
                     /\ 10000 * r["weight"][1] * r["height"][2] * r["height"][2]
                          > 25 * r["height"][1] * r["height"][1] * r["weight"][2]
            holds == {k \in {"weight_gain", "fast_food"} :
                         ~Unknown(r, k) /\ r[k] = Q(1)}
                     \cup {k \in {"regular_exercise"} :
                              ~Unknown(r, k) /\ r[k] = Q(0)}
                     \cup (IF over25 THEN {"bmi"} ELSE {})
        IN  (Positions(result.recommendation, {"METABOLIC PATTERN DETECTED"}) # {})
                <=> (Cardinality(holds) >= 2)

\* weight 70, height 165, weight_gain 1, fast_food 1, regular_exercise 0:
\* four of four conditions hold and the block is there
C11_Witness ==
    /\ pc = "done"
    /\ record0 \in ScenarioRecords
    /\ Positions(result.recommendation, {"METABOLIC PATTERN DETECTED"}) # {}


\* C12: the menstrual block is in the recommendation iff cycle_regularity
\* carries the irregular code of the screening input (4) or cycle_length is
\* above 35; an irregular record with cycle_length <= 35 still has it.
C12_MenstrualBlockIffIrregular ==
    pc = "done" =>
        LET r == record0
            irregular == ~Unknown(r, "cycle_regularity") /\ r["cycle_regularity"] = Q(4)
            long == ~Unknown(r, "cycle_length")
                    /\ r["cycle_length"][1] > 35 * r["cycle_length"][2]
        IN  (Positions(result.recommendation, {"MENSTRUAL IRREGULARITY NOTED"}) # {})
                <=> (irregular \/ long)


\* C13 as stated: the symptom section holds at most two of the three pattern
\* blocks, never all three.
C13_AtMostTwoBlocks ==
    pc = "done" =>
        Cardinality(Positions(result.recommendation, SymptomBlocks)) <= 2

\* C13: the symptom section holds zero to three pattern blocks: each of the
\* three blocks at most once, in the order metabolic, hyperandrogenic,
\* menstrual, consecutive blocks one space apart.
C13_ZeroToThreeBlocksInOrder ==
    pc = "done" =>
        LET r == result.recommendation
            met == Positions(r, {"METABOLIC PATTERN DETECTED"})
            hyp == Positions(r, {"HYPERANDROGENIC PATTERN DETECTED"})
            men == Positions(r, {"MENSTRUAL IRREGULARITY NOTED"})
            all == Positions(r, SymptomBlocks)
        IN  /\ Cardinality(met) <= 1 /\ Cardinality(hyp) <= 1 /\ Cardinality(men) <= 1
            /\ Cardinality(all) \in 0..3
            /\ \A i \in met : \A j \in hyp \cup men : i < j
            /\ \A i \in hyp : \A j \in men : i < j
            /\ \A i \in all : \A j \in all :
                  i < j => \E k \in all : k = i + 2 /\ r[i + 1] = Space

\* a recommendation holding all three pattern blocks
C13_Witness ==
    /\ pc = "done"
    /\ Cardinality(Positions(result.recommendation, SymptomBlocks)) = 3


\* C14: the hyperandrogenic block is in the recommendation iff at least 2 of
\* hair_growth, hair_loss, pimples, skin_darkening equal 1, whatever the
\* other patterns do; when the metabolic block is there too, it comes first
\* and the two are one space apart, with no " | " between them.
C14_AndrogenBlockIndependent ==
    pc = "done" =>
        LET r == result.recommendation
            met == Positions(r, {"METABOLIC PATTERN DETECTED"})
            hyp == Positions(r, {"HYPERANDROGENIC PATTERN DETECTED"})
            set == {k \in {"hair_growth", "hair_loss", "pimples", "skin_darkening"} :
                        ~Unknown(record0, k) /\ record0[k] = Q(1)}
        IN  /\ (hyp # {}) <=> (Cardinality(set) >= 2)
            /\ \A i \in met : \A j \in hyp : j = i + 2 /\ r[i + 1] = Space

\* both conditions hold, no menstrual pattern: the two blocks share a section
C14_Witness ==
    /\ pc = "done"
    /\ Positions(result.recommendation, {"METABOLIC PATTERN DETECTED"}) # {}
    /\ Positions(result.recommendation, {"HYPERANDROGENIC PATTERN DETECTED"}) # {}
    /\ Positions(result.recommendation, {"MENSTRUAL IRREGULARITY NOTED"}) = {}

\* C15: the base block is a function of (tier, stage): predict_stage1 gives
\* is_confirmed = FALSE and the screening block of the tier, predict_stage2
\* gives is_confirmed = TRUE and the confirmatory block of the tier, and the
\* six blocks are pairwise distinct.
C15_BaseBlockByTierAndStage ==
    pc = "done" =>
        LET screening == [HIGH |-> "HIGH RISK - PRESUMPTIVE",
                          MODERATE |-> "MODERATE RISK - INCONCLUSIVE",
                          LOW |-> "LOW RISK"]
            confirmatory == [HIGH |-> "CONFIRMED PCOS DIAGNOSIS",
                             MODERATE |-> "BORDERLINE RESULT",
                             LOW |-> "LOW RISK CONFIRMED"]
            block == result.recommendation[1]
        IN  /\ result.is_confirmed = is_stage2
            /\ result.risk_level \in DOMAIN screening
            /\ ~is_stage2 => block = screening[result.risk_level]
            /\ is_stage2 => block = confirmatory[result.risk_level]
            /\ \A t \in DOMAIN screening : \A u \in DOMAIN confirmatory :
                  /\ screening[t] # confirmatory[u]
                  /\ t # u => /\ screening[t] # screening[u]
                              /\ confirmatory[t] # confirmatory[u]

\* a confirmatory call in the MODERATE tier
C15_Witness ==
    /\ pc = "done"
    /\ is_stage2
    /\ result.is_confirmed
    /\ result.risk_level = "MODERATE"
    /\ result.recommendation[1] = "BORDERLINE RESULT"


\* C16: a call leaves the caller's record as it was: once the call has
\* returned or raised, the record has the keys and values it was passed with.
C16_CallerRecordUnchanged ==
    pc \in {"done", "raised"} => input_data = record0


\* C17: a call that scores the record the call before scored (the same dict
\* object, or an equal fresh dict) builds the same feature vector and, at
\* the same stage, ends the same way with the same result.
C17_RepeatedCallSameOutcome ==
    (pc \in {"done", "raised"} /\ prev # NoCall) =>
        /\ features = prev[2]
        /\ pc = prev[4]
        /\ error = prev[5]
        /\ pc = "done" =>
              /\ result.probability = prev[3].probability
              /\ result.risk_level = prev[3].risk_level
              /\ result.shap_chart_data = prev[3].shap_chart_data
              /\ is_stage2 = prev[1] => result = prev[3]

\* the second call was given the dict object on which the first call had
\* written a derived bmi, and returned a result
C17_Witness ==
    /\ pc = "done"
    /\ prev # NoCall
    /\ is_stage2 = prev[1]
    /\ "bmi" \in DOMAIN record0
    /\ record0["bmi"] = QDiv(Q(70), QMul(QDiv(Q(160), Q(100)), QDiv(Q(160), Q(100))))
    /\ result.shap_chart_data # <<>>


\* C19: a failure of any load statement ends construction for good: a
\* service that is ready has every artifact set, a scoring call runs only on
\* a ready service, nothing happens after a failed construction, and once
\* construction is over no artifact is loaded again.
C19_FailFastOnLoad ==
    /\ [](svc = "ready" => loaded = ArtifactOrder)
    /\ [](pc # "idle" => svc = "ready" /\ loaded = ArtifactOrder)
    /\ [][svc # "failed"]_vars
    /\ [][svc # "constructing" =>
            UNCHANGED <<svc, loaded, model, feature_names, training_means>>]_vars

\* the scaler failed to load after the model had been loaded
C19_Witness ==
    /\ svc = "failed"
    /\ loaded = <<"model">>
    /\ pc = "idle"


\* C18: however the steps of the calls in flight interleave, no step writes
\* the schema, the means, the model or any other artifact of the singleton,
\* and every call ends as it ends when it runs alone.
C18_ConcurrentCallsDoNotInterfere ==
    /\ [](\A c \in DOMAIN calls :
            calls[c].pc \in {"done", "raised"} =>
                <<calls[c].pc, calls[c].error, calls[c].result>>
                    = AloneOutcome(calls[c].record0, calls[c].is_stage2))
    /\ [][UNCHANGED <<model, feature_names, training_means, argsort_kind,
                      svc, loaded>>]_vars

\* a call returned its result while a call on another record was between
\* its builder and its scorer
C18_Witness ==
    /\ DOMAIN calls = Calls
    /\ calls[1].pc = "done"
    /\ calls[2].pc = "predict"
    /\ calls[1].record0 # calls[2].record0
    /\ calls[2].features # calls[1].features


\* C20: no result is returned for a record in which a field required for
\* the stage of the call is absent or null.
C20_NoResultWithoutRequiredFields ==
    pc = "done" =>
        /\ \A k \in Stage1Required : ~Unknown(record0, k)
        /\ is_stage2 => \A k \in Stage2Required : ~Unknown(record0, k)


\* C22: in a confirmatory call whose record has fsh and lh with lh > 0, the
\* vector slot of the schema's FSH:LH ratio feature holds fsh / lh.
C22_RatioSlotHoldsDerivedRatio ==
    (VectorBuilt /\ is_stage2
        /\ ~Unknown(record0, "fsh") /\ ~NotPositive(record0, "lh")) =>
        \A i \in DOMAIN features :
            feature_names[i] = "FSH/LH"
                => features[i] = QDiv(record0["fsh"], record0["lh"])

\* C23: a mapped field that the record read by the builder loop holds with
\* the value 0 fills its slot with 0, not with the training mean; a slot
\* holds the mean only if its field is absent or None (or has no mapping).
C23_ZeroIsNotUnknown ==
    VectorBuilt =>
        \A i \in DOMAIN features :
            LET hits == {m \in DOMAIN field_mapping :
                            field_mapping[m][2] = feature_names[i]}
            IN  \A m \in hits :
                    LET k == field_mapping[m][1]
                    IN  /\ (k \in DOMAIN input_data /\ input_data[k] = Q(0))
                              => features[i] = Q(0)
                        /\ ~Unknown(input_data, k) => features[i] = input_data[k]

\* a supplied BMI of 0 fills the BMI slot, whose training mean is not 0
C23_Witness ==
    /\ VectorBuilt
    /\ "bmi" \in DOMAIN record0
    /\ record0["bmi"] = Q(0)
    /\ \E i \in DOMAIN features :
          /\ feature_names[i] = "BMI"
          /\ features[i] = Q(0)
          /\ MeanGet(training_means, "BMI") # Q(0)

\* C24: of two features with equal absolute contribution the one with the
\* smaller schema index comes earlier in the attribution list, and is the
\* one kept when only one of them fits in the list.
C24_TiesInSchemaOrder ==
    pc = "done" =>
        LET list == result.shap_chart_data
            pos(i) == {k \in DOMAIN list : list[k].feature = feature_names[i]}
        IN  \A i \in DOMAIN shap_values : \A j \in DOMAIN shap_values :
                (i < j /\ Abs(shap_values[i]) = Abs(shap_values[j])) =>
                    /\ pos(j) # {} => pos(i) # {}
                    /\ \A a \in pos(i) : \A b \in pos(j) : a < b

\* C25: whenever the inputs of a derived field are present with a positive
\* denominator, the call computes it from them, whatever the record holds
\* under its name, and the vector slot and the record read by the
\* recommendation rules hold that value.
C25_DerivedFromOwnInputs ==
    VectorBuilt =>
        /\ (~Unknown(record0, "weight") /\ ~NotPositive(record0, "height")) =>
              LET m == QDiv(record0["height"], Q(100))
                  bmi == QDiv(record0["weight"], QMul(m, m))
              IN  /\ DictGet(input_data, "bmi") = bmi
                  /\ \A i \in DOMAIN features :
                        feature_names[i] = "BMI" => features[i] = bmi
        /\ (~Unknown(record0, "fsh") /\ ~NotPositive(record0, "lh")) =>
              DictGet(input_data, "fsh_lh_ratio")
                  = QDiv(record0["fsh"], record0["lh"])
        /\ (~Unknown(record0, "waist") /\ ~NotPositive(record0, "hip")) =>
              LET ratio == QDiv(record0["waist"], record0["hip"])
              IN  /\ DictGet(input_data, "waist_hip_ratio") = ratio
                  /\ \A i \in DOMAIN features :
                        feature_names[i] = "Waist:Hip Ratio" => features[i] = ratio

\* C29: the recommendation composer returns a string for every record: a
\* call whose vector was built never ends with an exception.
C29_ComposerIsTotal ==
    ~(pc = "raised" /\ VectorBuilt)


\* the clinician a patient belongs to
OwnerOfPatient(p) == db.patients[p].clinician_id

\* the clinician the patient of a diagnosis belongs to
OwnerOfDiagnosis(d) == db.patients[db.diagnoses[d].patient_id].clinician_id

\* C21: the record a confirmation scores holds every screening field with
\* the value the screening of that diagnosis scored and stored (the age is
\* age_at_diagnosis), and the clinical fields of the stage-2 body.
C21_ConfirmationScoresStoredScreening ==
    \A d \in DOMAIN trail :
        db.diagnoses[d].is_confirmed =>
            /\ \A k \in Stage1Required :
                  trail[d].scored[k] = trail[d].screened[k]
            /\ trail[d].scored["age"] = db.diagnoses[d].age_at_diagnosis
            /\ \A k \in Stage2Required :
                  trail[d].scored[k] = db.diagnoses[d].clinical[k]

\* C26: every stored diagnosis shows a non-null probability, and it, the
\* risk_level and the shap_values are those of the last scoring call on the
\* diagnosis; no request removes a diagnosis, changes its
\* stage1_probability or takes is_confirmed back from TRUE to FALSE.
C26_StoredDiagnosisIsLatest ==
    /\ [](\A d \in DOMAIN db.diagnoses :
            LET row == db.diagnoses[d]
                last == trail[d].returned
            IN  /\ Displayed(row) # None
                /\ Displayed(row) = <<last.probability>>
                /\ row.risk_level = last.risk_level
                /\ row.shap_values = last.shap_chart_data
                /\ row.is_confirmed = last.is_confirmed)
    /\ [][\A d \in DOMAIN db.diagnoses :
            /\ d \in DOMAIN db'.diagnoses
            /\ db'.diagnoses[d].stage1_probability = db.diagnoses[d].stage1_probability
            /\ db.diagnoses[d].is_confirmed => db'.diagnoses[d].is_confirmed]_vars

\* a diagnosis confirmed with the second clinical input, whose displayed
\* probability is no longer the screening one
C26_Witness ==
    \E d \in DOMAIN db.diagnoses :
        /\ db.diagnoses[d].is_confirmed
        /\ db.diagnoses[d].clinical["fsh"] = Q(6)
        /\ db.diagnoses[d].stage2_probability # db.diagnoses[d].stage1_probability
        /\ db.diagnoses[d].risk_level # RiskLevel(db.diagnoses[d].stage1_probability[1])

\* C27: the recommendation in the data handed to the report generator is
\* the recommendation the last scoring call on the diagnosis returned.
C27_ReportCarriesReturnedRecommendation ==
    (response.op = "download_report" /\ response.status = 200) =>
        response.body.recommendation
            = trail[response.target].returned.recommendation


\* C28: a response discloses only patients and diagnoses of the clinician
\* who asked; a request naming a patient or diagnosis that is missing or
\* belongs to another clinician's patient is answered 404, and only such a
\* request; a 404 changes no row and scores nothing, and no request changes
\* or adds a diagnosis of another clinician's patient.
C28_ClinicianIsolation ==
    /\ [](/\ \A p \in response.patients : OwnerOfPatient(p) = response.by
          /\ \A d \in response.diagnoses : OwnerOfDiagnosis(d) = response.by
          /\ response.status = 404 =>
                response.patients = {} /\ response.diagnoses = {}
                    /\ response.body = <<>>
          /\ response.op \in {"stage1_screening", "get_patient_detail"} =>
                (response.status = 404 <=>
                    ~(/\ response.target \in DOMAIN db.patients
                      /\ OwnerOfPatient(response.target) = response.by))
          /\ response.op \in {"stage2_confirmation", "get_diagnosis_detail",
                              "download_report"} =>
                (response.status = 404 <=>
                    ~(/\ response.target \in DOMAIN db.diagnoses
                      /\ OwnerOfDiagnosis(response.target) = response.by)))
    /\ [][/\ response'.status = 404 => UNCHANGED <<db, trail>>
          /\ \A d \in DOMAIN db'.diagnoses :
                (d \notin DOMAIN db.diagnoses \/ db'.diagnoses[d] # db.diagnoses[d]
                    \/ trail'[d] # trail[d])
                    => db.patients[db'.diagnoses[d].patient_id].clinician_id
                           = response'.by
          /\ \A p \in DOMAIN db.patients :
                p \in DOMAIN db'.patients /\ db'.patients[p] = db.patients[p]]_vars

\* clinician 2 asked to confirm a diagnosis of clinician 1's patient and got
\* 404, the diagnosis still unconfirmed
C28_Witness ==
    /\ response.op = "stage2_confirmation"
    /\ response.by = 2
    /\ response.status = 404
    /\ response.target \in DOMAIN db.diagnoses
    /\ OwnerOfDiagnosis(response.target) = 1
    /\ ~db.diagnoses[response.target].is_confirmed

====
